---- MODULE Spec2Model ----
(***************************************************************************)
(* storchastic: the cost registry, the tensor graph, the reverse-Kahn      *)
(* topological sort and the backward orchestrator (storch/inference.py,    *)
(* storch/util.py).  Tensors are numbered 1..Len(tensors) in creation      *)
(* order; the transient nodes backward() creates (new_parent) are numbered *)
(* -1, -2, ... .  A list index is 1-based here and 0-based in the code.    *)
(***************************************************************************)
EXTENDS Integers, Sequences, FiniteSets, TLC

\* ------------------------------------------------------------------ bounds
MaxNodes == 3
MaxTopoNodes == 4
MaxParents == 2
MaxViews == 2
NumPlates == 3
MaxSortArgs == 2

VARIABLES
    tensors,       \* the storch.Tensor objects built so far, by creation order
    cost_tensors,  \* storch.inference._cost_tensors
    grad_enabled,  \* torch.is_grad_enabled()
    n_views,       \* how many new_parent nodes backward() has created
    last           \* the most recent call: its arguments, its result or exception

vars == <<tensors, cost_tensors, grad_enabled, n_views, last>>

\* ------------------------------------------------------------ list helpers
Range(s) == {s[i] : i \in DOMAIN s}

\* list.index(x), for x in the list
IndexOf(s, x) == CHOOSE i \in DOMAIN s : s[i] = x /\ \A j \in 1..(i - 1) : s[j] # x

\* list.remove(x), for x in the list: the first occurrence goes
RemoveFirst(s, x) ==
    LET i == IndexOf(s, x)
    IN SubSeq(s, 1, i - 1) \o SubSeq(s, i + 1, Len(s))

\* a[i], a[j] = a[j], a[i]
Swap(s, i, j) == [s EXCEPT ![i] = s[j], ![j] = s[i]]

RECURSIVE SeqsOver(_, _)
SeqsOver(S, n) ==
    IF n = 0 THEN {<<>>}
    ELSE LET shorter == SeqsOver(S, n - 1)
         IN shorter \cup {Append(s, x) : s \in shorter, x \in S}

NoRepeat(s) == \A i, j \in DOMAIN s : i # j => s[i] # s[j]

\* ------------------------------------------------------------------ plates
Plates == 1..NumPlates

\* Plate.n: plate 1 holds a single entry (k = 1), every other plate two.
PlateN(p) == IF p = 1 THEN 1 ELSE 2

\* Every ordered plate list a tensor can carry.
PlateLists == {s \in SeqsOver(Plates, NumPlates) : NoRepeat(s)}

\* Tensor.multi_dim_plates(): the plates with more than one entry, in order
multi_dim_plates(plates) == SelectSeq(plates, LAMBDA p : PlateN(p) > 1)

\* ------------------------------------------------------------ tensor graph
NodeIds == 1..Len(tensors)

is_cost(ts, n) == ts[n].kind = "CostTensor"
is_stochastic(ts, n) == ts[n].kind = "StochasticTensor"

\* [ch[0] for ch in p._children]
ChildNodes(ts, p) == [i \in DOMAIN ts[p].children |-> ts[p].children[i][1]]
ParentNodes(ts, n) == [i \in DOMAIN ts[n].parents |-> ts[n].parents[i][1]]

\* Tensor.__init__: the new tensor is appended to each parent's _children,
\* the edge tagged with whether a differentiable path links the two.
has_link(ts, p, requires_grad) == ts[p].requires_grad /\ requires_grad

NewTensor(ts, kind, parents, plates, requires_grad, event_shape) ==
    LET new == Len(ts) + 1
        edges == [i \in DOMAIN parents |-> <<parents[i], has_link(ts, parents[i], requires_grad)>>]
        linked == [p \in DOMAIN ts |->
                     IF p \in Range(parents)
                     THEN [ts[p] EXCEPT !.children =
                             Append(@, <<new, has_link(ts, p, requires_grad)>>)]
                     ELSE ts[p]]
    IN Append(linked, [kind |-> kind, parents |-> edges, children |-> <<>>,
                       plates |-> plates, requires_grad |-> requires_grad,
                       event_shape |-> event_shape])

EventShapes == {<<>>, <<4>>}

\* The plate lists user code gives its tensors in the full program model.
UserPlateLists == {<<>>}

ParentLists == {s \in SeqsOver(NodeIds, MaxParents) : NoRepeat(s)}

\* The model stops building tensors at `limit` of them.
Room(limit) == Len(tensors) < limit

\* A deterministic tensor computed from `parents`.
Deterministic(parents, plates, requires_grad, event_shape) ==
    /\ tensors' = NewTensor(tensors, "DeterministicTensor", parents, plates,
                            requires_grad, event_shape)
    /\ last' = [op |-> "deterministic", outcome |-> "ok", ret |-> Len(tensors) + 1]
    /\ UNCHANGED <<cost_tensors, grad_enabled, n_views>>

\* A sample drawn from a distribution whose parameters are `parents`.
Sample(parents, plates, requires_grad, event_shape) ==
    /\ tensors' = NewTensor(tensors, "StochasticTensor", parents, plates,
                            requires_grad, event_shape)
    /\ last' = [op |-> "sample", outcome |-> "ok", ret |-> Len(tensors) + 1]
    /\ UNCHANGED <<cost_tensors, grad_enabled, n_views>>

\* torch.set_grad_enabled / torch.no_grad
SetGradEnabled(b) ==
    /\ grad_enabled # b
    /\ grad_enabled' = b
    /\ last' = [op |-> "set_grad_enabled", outcome |-> "ok", ret |-> 0]
    /\ UNCHANGED <<tensors, cost_tensors, n_views>>

\* ---------------------------------------------------------------- add_cost
NoName == "<None>"
Names == {NoName, "", "loss"}

\* `not name`
name_is_empty(name) == name = NoName \/ name = ""

\* add_cost with its name guard left out.
add_cost_rejects_event_only(cost, name) == tensors[cost].event_shape # <<>>

\* The two ValueError guards of add_cost.
add_cost_rejects(cost, name) ==
    tensors[cost].event_shape # <<>> \/ name_is_empty(name)

\* Whether add_cost registers the new cost node.
add_cost_registers == grad_enabled

add_cost(cost, name) ==
    /\ cost \in NodeIds
    /\ IF add_cost_rejects(cost, name)
       THEN /\ last' = [op |-> "add_cost", outcome |-> "ValueError", ret |-> 0,
                        cost |-> cost, name |-> name]
            /\ UNCHANGED <<tensors, cost_tensors>>
       ELSE /\ tensors' = NewTensor(tensors, "CostTensor", <<cost>>,
                                    tensors[cost].plates,
                                    tensors[cost].requires_grad, <<>>)
            /\ cost_tensors' = IF add_cost_registers
                               THEN Append(cost_tensors, Len(tensors) + 1)
                               ELSE cost_tensors
            /\ last' = [op |-> "add_cost", outcome |-> "ok", ret |-> Len(tensors) + 1,
                        cost |-> cost, name |-> name]
    /\ UNCHANGED <<grad_enabled, n_views>>

\* ------------------------------------------------------------------- reset
reset ==
    /\ cost_tensors' = <<>>
    /\ last' = [op |-> "reset", outcome |-> "ok", ret |-> 0]
    /\ UNCHANGED <<tensors, grad_enabled, n_views>>

\* -------------------------------------------------------- topological_sort
\* A parent pushed as soon as one of its children is popped.
kahn_ready_early(children) == TRUE

\* `if not children: s.append(p)`
kahn_ready(children) == children = <<>>

\* The loop over n._parents: each parent's remaining-children list loses n,
\* and a parent with none left is pushed.
RECURSIVE kahn_parents(_, _, _, _, _)
kahn_parents(ts, n, todo, s, edges) ==
    IF todo = <<>> THEN [ok |-> TRUE, s |-> s, edges |-> edges]
    ELSE LET p == Head(todo)
             children == IF p \in DOMAIN edges THEN edges[p] ELSE ChildNodes(ts, p)
         IN IF n \notin Range(children)
            THEN [ok |-> FALSE, s |-> s, edges |-> edges]
            ELSE LET left == RemoveFirst(children, n)
                     edges1 == [q \in DOMAIN edges \cup {p} |->
                                  IF q = p THEN left ELSE edges[q]]
                 IN kahn_parents(ts, n, Tail(todo),
                                 IF kahn_ready(left) THEN Append(s, p) ELSE s,
                                 edges1)

\* `while s: n = s.pop(); l.append(n); ...`
RECURSIVE kahn_loop(_, _, _, _)
kahn_loop(ts, l, s, edges) ==
    IF s = <<>> THEN [outcome |-> "ok", order |-> l]
    ELSE LET n == s[Len(s)]
             r == kahn_parents(ts, n, ParentNodes(ts, n),
                               SubSeq(s, 1, Len(s) - 1), edges)
         IN IF r.ok THEN kahn_loop(ts, Append(l, n), r.s, r.edges)
            ELSE [outcome |-> "ValueError", order |-> Append(l, n)]

topological_sort(ts, costs) ==
    IF \E i \in DOMAIN costs : ~is_cost(ts, costs[i]) \/ ts[costs[i]].children # <<>>
    THEN [outcome |-> "ValueError", order |-> <<>>]
    ELSE kahn_loop(ts, <<>>, costs, <<>>)

\* print_graph(costs): sorts, then prints each node and its parent edges.
print_graph(costs) ==
    /\ LET r == topological_sort(tensors, costs)
       IN last' = [op |-> "print_graph", outcome |-> r.outcome, ret |-> 0,
                   costs |-> costs, order |-> r.order]
    /\ UNCHANGED <<tensors, cost_tensors, grad_enabled, n_views>>

\* ------------------------------------------------------------ walk_parents
\* Tensor.walk_parents(depth_first=False): every transitive parent, each once,
\* shallowest first.
RECURSIVE walk_breadth_first(_, _, _, _)
walk_breadth_first(ts, queue, visited, out) ==
    IF queue = <<>> THEN out
    ELSE LET v == Head(queue)
             new == SelectSeq(ParentNodes(ts, v), LAMBDA w : w \notin visited)
         IN walk_breadth_first(ts, Tail(queue) \o new, visited \cup Range(new),
                               out \o new)

walk_parents(ts, c) == walk_breadth_first(ts, <<c>>, {c}, <<>>)

\* ------------------------------------------------------------ Plate.reduce
\* plate.reduce(tensor, detach_weights): contracts the plate's axis, which has
\* to be the tensor's leading remaining plate axis; a shape mismatch otherwise.
\* A tensor is known here by its plate list.
reduce(plate, plates) ==
    LET multi == multi_dim_plates(plates)
    IN IF multi # <<>> /\ Head(multi) = plate
       THEN [ok |-> TRUE, plates |-> SelectSeq(plates, LAMBDA q : q # plate)]
       ELSE [ok |-> FALSE, plates |-> plates]

\* `for plate in t.multi_dim_plates(): t' = plate.reduce(t', ...)`
RECURSIVE reduce_all(_, _)
reduce_all(todo, plates) ==
    IF todo = <<>> THEN [ok |-> TRUE, plates |-> plates]
    ELSE LET r == reduce(Head(todo), plates)
         IN IF r.ok THEN reduce_all(Tail(todo), r.plates) ELSE r

\* ---------------------------------------------------------------- backward
\* Lines 102-107: `reduced_cost = plate.reduce(c, detach_weights=True)` for
\* each multi-entry plate of c that parent_plates lacks.
RECURSIVE reduce_absent(_, _, _, _)
reduce_absent(c_plates, parent_plates, todo, reduced_cost) ==
    IF todo = <<>> THEN [ok |-> TRUE, plates |-> reduced_cost]
    ELSE IF Head(todo) \in Range(parent_plates)
         THEN reduce_absent(c_plates, parent_plates, Tail(todo), reduced_cost)
         ELSE LET r == reduce(Head(todo), c_plates)
              IN IF r.ok
                 THEN reduce_absent(c_plates, parent_plates, Tail(todo), r.plates)
                 ELSE [ok |-> FALSE, plates |-> reduced_cost]

\* torch.Tensor.transpose(i, j): the two axes change places
transpose(axes, i, j) == Swap(axes, i, j)

\* The plate list swapped and the tensor left as it was.
align_swap_plates_only(parent_plates, parent_tensor, index_p, index_c) ==
    [plates |-> Swap(parent_plates, index_p, index_c), tensor |-> parent_tensor]

\* Lines 113-117: the swap made when the cost's plate sits elsewhere in the parent.
align_swap(parent_plates, parent_tensor, index_p, index_c) ==
    [plates |-> Swap(parent_plates, index_p, index_c),
     tensor |-> transpose(parent_tensor, index_p, index_c)]

\* Lines 110-117: the alignment loop over reduced_cost.multi_dim_plates().
RECURSIVE align(_, _, _, _)
align(cost_plates, index_c, parent_plates, parent_tensor) ==
    IF index_c > Len(cost_plates)
    THEN [outcome |-> "ok", plates |-> parent_plates, tensor |-> parent_tensor]
    ELSE LET plate == cost_plates[index_c]
         IN IF plate \notin Range(parent_plates)
            THEN [outcome |-> "ValueError", plates |-> parent_plates,
                  tensor |-> parent_tensor]
            ELSE LET index_p == IndexOf(parent_plates, plate)
                 IN IF index_c = index_p
                    THEN align(cost_plates, index_c + 1, parent_plates, parent_tensor)
                    ELSE IF index_c > Len(parent_plates)
                    THEN [outcome |-> "IndexError", plates |-> parent_plates,
                          tensor |-> parent_tensor]
                    ELSE LET sw == align_swap(parent_plates, parent_tensor,
                                              index_p, index_c)
                         IN align(cost_plates, index_c + 1, sw.plates, sw.tensor)

\* Lines 119-121: the parent's single-entry plates are appended.
RECURSIVE add_empty_plates(_, _)
add_empty_plates(todo, parent_plates) ==
    IF todo = <<>> THEN parent_plates
    ELSE add_empty_plates(Tail(todo),
                          IF Head(todo) \in Range(parent_plates) THEN parent_plates
                          ELSE Append(parent_plates, Head(todo)))

\* parent._tensor's axes: one per multi-entry plate, then the event axes (0).
tensor_axes(t) == multi_dim_plates(t.plates) \o [i \in DOMAIN t.event_shape |-> 0]

\* Lines 138-141: new_parent takes parent's _parents and _children lists, and is
\* appended to the _children of each of parent's parents.
splice_children(ts, parent, new_parent) ==
    [p \in DOMAIN ts |->
       [ts[p] EXCEPT !.children =
          @ \o [i \in DOMAIN SelectSeq(ts[parent].parents, LAMBDA e : e[1] = p) |->
                  <<new_parent, SelectSeq(ts[parent].parents, LAMBDA e : e[1] = p)[i][2]>>]]]

\* stochastic_nodes as a list: the parent appended once per cost reaching it.
list_append(stochastic_nodes, parent) == Append(stochastic_nodes, parent)

\* `stochastic_nodes.add(parent)`, stochastic_nodes kept in insertion order
set_add(stochastic_nodes, parent) ==
    IF parent \in Range(stochastic_nodes) THEN stochastic_nodes
    ELSE Append(stochastic_nodes, parent)

\* Lines 92-96: whether this ancestor is passed over for cost c.  adds_loss is
\* the set of (parent, c) pairs for which the sampling method answers True.
skipped(ts, parent, c, adds_loss) ==
    \/ ~is_stochastic(ts, parent)
    \/ ~ts[parent].requires_grad
    \/ <<parent, c>> \notin adds_loss

\* Lines 89-158: one iteration of the loop over c.walk_parents().
backward_parent(st, c, parent, adds_loss, fail) ==
    LET st1 == IF is_stochastic(st.ts, parent)
               THEN [st EXCEPT !.stochastic_nodes = set_add(@, parent)]
               ELSE st
        t == st.ts[parent]
        parent_plates == multi_dim_plates(t.plates)
        red == reduce_absent(st.ts[c].plates, parent_plates,
                             multi_dim_plates(st.ts[c].plates), st.ts[c].plates)
        st2 == [st1 EXCEPT !.reduced = Append(@, [cost |-> c, parent |-> parent,
                                                   ok |-> red.ok, plates |-> red.plates])]
        al == align(multi_dim_plates(red.plates), 1, parent_plates, tensor_axes(t))
        new_parent == -(st.n_views + 1)
        st3 == [st2 EXCEPT
                  !.ts = splice_children(@, parent, new_parent),
                  !.n_views = @ + 1,
                  !.aligned = Append(@, [cost |-> c, parent |-> parent,
                                         reduced_cost |-> red.plates,
                                         new_parent |-> new_parent,
                                         plates |-> add_empty_plates(t.plates, al.plates),
                                         tensor |-> al.tensor]),
                  !.estimated = Append(@, <<parent, c>>)]
    IN IF skipped(st.ts, parent, c, adds_loss) THEN st1
       ELSE IF ~red.ok THEN [st2 EXCEPT !.outcome = "ShapeError"]
       ELSE IF al.outcome # "ok" THEN [st2 EXCEPT !.outcome = al.outcome]
       ELSE IF fail = "estimator" THEN [st3 EXCEPT !.outcome = "EstimatorError"]
       ELSE [st3 EXCEPT !.accum_loss = "Tensor"]

RECURSIVE backward_parents(_, _, _, _, _)
backward_parents(st, c, todo, adds_loss, fail) ==
    IF todo = <<>> \/ st.outcome # "ok" THEN st
    ELSE CHOOSE r \in {backward_parents(st1, c, Tail(todo), adds_loss, fail) :
                         st1 \in {backward_parent(st, c, Head(todo), adds_loss, fail)}} : TRUE

\* Lines 80-87 and 160-162: avg_cost is c reduced over its multi-entry plates;
\* it joins accum_loss when it requires gradient.
backward_cost(st, c, adds_loss, fail) ==
    LET avg_cost == reduce_all(multi_dim_plates(st.ts[c].plates), st.ts[c].plates)
        st1 == [st EXCEPT !.total_cost = "Tensor", !.walked = @ + 1]
    IN IF ~avg_cost.ok THEN [st EXCEPT !.outcome = "ShapeError"]
       ELSE CHOOSE r \in
              {IF st2.outcome = "ok" /\ st.ts[c].requires_grad
               THEN [st2 EXCEPT !.accum_loss = "Tensor"]
               ELSE st2 :
                 st2 \in {backward_parents(st1, c, walk_parents(st.ts, c),
                                           adds_loss, fail)}} : TRUE

\* Lines 79-162: the loop over the registered costs.
RECURSIVE backward_costs(_, _, _, _)
backward_costs(st, todo, adds_loss, fail) ==
    IF todo = <<>> \/ st.outcome # "ok" THEN st
    ELSE CHOOSE r \in {backward_costs(st1, Tail(todo), adds_loss, fail) :
                         st1 \in {backward_cost(st, Head(todo), adds_loss, fail)}} : TRUE

\* Whether backward() empties the registry once the update hooks have run.
backward_resets(retain_graph) == ~retain_graph

\* Line 173: `return total_cost._tensor, accum_loss._tensor`; a Python float
\* has no _tensor attribute.
backward_return(total_cost, accum_loss) ==
    IF total_cost = "0.0" \/ accum_loss = "0.0" THEN "AttributeError" ELSE "ok"

\* Lines 164-173, from the state the loop over the costs left.
backward_finish(st, retain_graph, fail, first) ==
    LET engine == st.outcome = "ok" /\ st.accum_loss = "Tensor"
        after_engine == IF engine /\ fail = "backward" THEN "EngineError" ELSE st.outcome
        hooks == after_engine = "ok" /\ st.stochastic_nodes # <<>>
        after_hooks == IF hooks /\ fail = "update" THEN "UpdateError" ELSE after_engine
    IN [outcome |-> IF after_hooks # "ok" THEN after_hooks
                    ELSE backward_return(st.total_cost, st.accum_loss),
        engine |-> engine,
        updated |-> IF ~hooks THEN <<>>
                    ELSE IF fail = "update" THEN <<first>>
                    ELSE st.stochastic_nodes,
        resets |-> after_hooks = "ok" /\ backward_resets(retain_graph)]

\* The pairs adds_loss is asked about: a stochastic ancestor that requires
\* gradient, and the registered cost it was reached from.
Queried ==
    {pc \in NodeIds \X Range(cost_tensors) :
       /\ pc[1] \in Range(walk_parents(tensors, pc[2]))
       /\ is_stochastic(tensors, pc[1])
       /\ tensors[pc[1]].requires_grad}

FailPoints == {"none", "estimator", "backward", "update"}

\* backward(retain_graph, debug).  `fail` names the collaborator that raises
\* (the estimator, the engine's backward pass, an update hook), `first` the
\* stochastic node whose hook a failing update step reaches first.
backward(retain_graph, debug, adds_loss, fail, first) ==
    /\ (fail = "update") = (first # 0)
    /\ \E sorted \in {IF debug THEN topological_sort(tensors, cost_tensors)
                      ELSE [outcome |-> "ok", order |-> <<>>]} :
       \E st0 \in {[outcome |-> sorted.outcome, ts |-> tensors, n_views |-> n_views,
                    total_cost |-> "0.0", accum_loss |-> "0.0", walked |-> 0,
                    stochastic_nodes |-> <<>>, reduced |-> <<>>, aligned |-> <<>>,
                    estimated |-> <<>>]} :
       \E st \in {backward_costs(st0, cost_tensors, adds_loss, fail)} :
       \E fin \in {backward_finish(st, retain_graph, fail, first)} :
          /\ fail = "estimator" => fin.outcome = "EstimatorError"
          /\ fail = "backward" => fin.outcome = "EngineError"
          /\ fail = "update" => fin.outcome = "UpdateError" /\ first \in Range(st.stochastic_nodes)
          /\ tensors' = st.ts
          /\ n_views' = st.n_views
          /\ cost_tensors' = IF fin.resets THEN <<>> ELSE cost_tensors
          /\ last' = [op |-> "backward", outcome |-> fin.outcome, ret |-> 0,
                      retain_graph |-> retain_graph, debug |-> debug,
                      adds_loss |-> adds_loss, costs |-> cost_tensors,
                      sorted |-> sorted.outcome, order |-> sorted.order, walked |-> st.walked,
                      total_cost |-> st.total_cost, accum_loss |-> st.accum_loss,
                      reduced |-> st.reduced, aligned |-> st.aligned,
                      estimated |-> st.estimated, engine |-> fin.engine,
                      updated |-> fin.updated]
    /\ UNCHANGED grad_enabled

\* ------------------------------------------------------------------- specs
Init ==
    /\ tensors = <<>>
    /\ cost_tensors = <<>>
    /\ grad_enabled = TRUE
    /\ n_views = 0
    /\ last = [op |-> "import", outcome |-> "ok", ret |-> 0]

\* The whole program: user code builds tensors, registers costs, runs backward.
Next ==
    \/ /\ Room(MaxNodes)
       /\ \E ps \in ParentLists, pl \in UserPlateLists, rg \in BOOLEAN, ev \in EventShapes :
             Deterministic(ps, pl, rg, ev)
    \/ /\ Room(MaxNodes)
       /\ \E ps \in ParentLists, pl \in UserPlateLists, rg \in BOOLEAN, ev \in EventShapes :
             Sample(ps, pl, rg, ev)
    \/ \E b \in BOOLEAN : SetGradEnabled(b)
    \/ \E c \in NodeIds, name \in Names :
          /\ add_cost_rejects(c, name) \/ Room(MaxNodes)
          /\ add_cost(c, name)
    \/ reset
    \/ \E rt \in BOOLEAN, dbg \in BOOLEAN, al \in SUBSET Queried, f \in FailPoints,
          first \in NodeIds \cup {0} :
          /\ backward(rt, dbg, al, f, first)
          /\ n_views' <= MaxViews

Spec == Init /\ [][Next]_vars

\* Graph building and print_graph alone, on larger graphs: every tensor plain
\* (no plates, scalar, requiring gradient), samples drawn from parameter-free
\* distributions, and any list of cost nodes sorted.
NextTopo ==
    \/ /\ Room(MaxTopoNodes)
       /\ \E ps \in ParentLists : Deterministic(ps, <<>>, TRUE, <<>>)
    \/ /\ Room(MaxTopoNodes)
       /\ Sample(<<>>, <<>>, TRUE, <<>>)
    \/ /\ Room(MaxTopoNodes)
       /\ \E c \in NodeIds : add_cost(c, "loss")
    \/ \E costs \in SeqsOver({n \in NodeIds : is_cost(tensors, n)}, MaxSortArgs) :
          print_graph(costs)

SpecTopo == Init /\ [][NextTopo]_vars

\* One sample, one deterministic tensor computed from it and that tensor
\* registered as a cost, over every choice of the two plate lists.
InitAlign ==
    \E ps \in PlateLists, pd \in PlateLists, ev \in EventShapes :
       LET t1 == NewTensor(<<>>, "StochasticTensor", <<>>, ps, TRUE, ev)
           t2 == NewTensor(t1, "DeterministicTensor", <<1>>, pd, TRUE, <<>>)
           t3 == NewTensor(t2, "CostTensor", <<2>>, pd, TRUE, <<>>)
       IN /\ tensors = t3
          /\ cost_tensors = <<3>>
          /\ grad_enabled = TRUE
          /\ n_views = 0
          /\ last = [op |-> "add_cost", outcome |-> "ok", ret |-> 3,
                     cost |-> 2, name |-> "loss"]

\* One optimisation step on it, backward() with its default arguments.
NextAlign ==
    \E al \in SUBSET Queried, f \in FailPoints, first \in NodeIds \cup {0} :
       /\ backward(FALSE, FALSE, al, f, first)
       /\ n_views' <= MaxViews

SpecAlign == InitAlign /\ [][NextAlign]_vars

\* ------------------------------------------------------------------ claims
\* The transitive parents of n, read off the parent edges.
RECURSIVE AncestorsWithin(_, _, _)
AncestorsWithin(ts, frontier, seen) ==
    LET more == UNION {Range(ParentNodes(ts, n)) : n \in frontier} \ seen
    IN IF more = {} THEN seen ELSE AncestorsWithin(ts, more, seen \cup more)

Ancestors(ts, n) == AncestorsWithin(ts, {n}, {})

StochasticAncestors(ts, c) == {p \in Ancestors(ts, c) : ts[p].kind = "StochasticTensor"}

\* C1: after any sequence of add_cost, backward and reset calls the registry
\* holds exactly the costs that successful add_cost calls returned while
\* differentiation was enabled since the most recent reset() or completed
\* backward(retain_graph=False), in registration order.  Stated call by call:
\* the registry starts empty; an add_cost that succeeds with differentiation
\* enabled appends the cost it returns; reset() and a completed
\* backward(retain_graph=False) empty it; every other call leaves it alone.
C1_RegistryHoldsCostsSinceReset ==
    [][/\ last'.op = "add_cost" =>
            cost_tensors' = IF last'.outcome = "ok" /\ grad_enabled
                            THEN Append(cost_tensors, last'.ret)
                            ELSE cost_tensors
       /\ last'.op = "reset" => cost_tensors' = <<>>
       /\ last'.op = "backward" =>
            cost_tensors' = IF last'.outcome = "ok" /\ ~last'.retain_graph
                            THEN <<>>
                            ELSE cost_tensors
       /\ last'.op \notin {"add_cost", "reset", "backward"} =>
            cost_tensors' = cost_tensors]_vars

\* C2: add_cost raises a ValueError for an input whose event shape is not
\* empty and for a name that is empty or None; the call then creates no
\* tensor and leaves the registry as it was, whatever grad_enabled is.
C2_AddCostRejects ==
    [][(/\ last'.op = "add_cost"
        /\ \/ tensors[last'.cost].event_shape # <<>>
           \/ last'.name \in {"", "<None>"})
       => /\ last'.outcome = "ValueError"
          /\ tensors' = tensors
          /\ cost_tensors' = cost_tensors]_vars

\* A rejected add_cost, for its name alone, made with differentiation disabled
\* and costs in the registry.
C2_Witness ==
    /\ last.op = "add_cost"
    /\ last.outcome = "ValueError"
    /\ last.name = ""
    /\ tensors[last.cost].event_shape = <<>>
    /\ ~grad_enabled
    /\ cost_tensors # <<>>

\* C3: with an empty registry backward() completes without error, walks no
\* graph, calls no estimator and no update hook, and returns (0, 0).
C3_EmptyRegistryBackwardReturnsZero ==
    (last.op = "backward" /\ last.costs = <<>>)
    => /\ last.outcome = "ok"
       /\ last.walked = 0
       /\ last.estimated = <<>>
       /\ last.updated = <<>>
       /\ last.total_cost = "0.0"
       /\ last.accum_loss = "0.0"

C5_FailedBackwardKeepsRegistry ==
    (last.op = "backward" /\ last.outcome # "ok") => cost_tensors = last.costs

\* C6: for every cost c and non-skipped stochastic ancestor, reduced_cost is
\* c reduced over every multi-entry plate of c that the ancestor lacks: its
\* multi-entry plates are exactly those c shares with the ancestor.
C6_ReducedCostKeepsSharedPlates ==
    last.op = "backward" =>
       \A i \in DOMAIN last.reduced :
          LET r == last.reduced[i]
              of_cost == {p \in Range(tensors[r.cost].plates) : PlateN(p) > 1}
              of_parent == {p \in Range(tensors[r.parent].plates) : PlateN(p) > 1}
          IN /\ r.ok
             /\ {p \in Range(r.plates) : PlateN(p) > 1} = of_cost \cap of_parent

\* The (ancestor, cost) pairs of a backward call that are not skipped.
NotSkipped ==
    {pc \in NodeIds \X Range(last.costs) :
       /\ pc[1] \in StochasticAncestors(tensors, pc[2])
       /\ tensors[pc[1]].requires_grad
       /\ pc \in last.adds_loss}

UpdateStepDone == last.outcome \in {"ok", "AttributeError"}

\* C7 as claimed: the update hook runs for exactly the stochastic ancestors
\* that were not skipped for at least one cost, once each.
C7_HooksOnlyForContributors ==
    (last.op = "backward" /\ UpdateStepDone)
    => /\ Range(last.updated) = {pc[1] : pc \in NotSkipped}
       /\ \A i, j \in DOMAIN last.updated : i # j => last.updated[i] # last.updated[j]

\* C7 as amended: a backward call that gets through its update step has run
\* the hook of every stochastic ancestor of the registered costs, skipped or
\* not, once each, and the estimator for exactly the pairs not skipped; a call
\* that fails earlier has run no hook, and the estimator only for such pairs.
C7_HooksForAllStochasticAncestors ==
    last.op = "backward"
    => /\ UpdateStepDone =>
            /\ Range(last.updated) =
                  UNION {StochasticAncestors(tensors, c) : c \in Range(last.costs)}
            /\ \A i, j \in DOMAIN last.updated : i # j => last.updated[i] # last.updated[j]
            /\ Range(last.estimated) = NotSkipped
       /\ Range(last.estimated) \subseteq NotSkipped
       /\ last.outcome \notin {"ok", "AttributeError", "UpdateError"} => last.updated = <<>>

\* A completed backward over two costs that share a stochastic ancestor, which
\* was skipped for both and still had its hook run.
C7_Witness ==
    /\ last.op = "backward"
    /\ last.outcome = "ok"
    /\ Len(last.costs) = 2
    /\ \E p \in Range(last.updated) :
          /\ \A c \in Range(last.costs) : p \in StochasticAncestors(tensors, c)
          /\ \A pc \in NotSkipped : pc[1] # p

\* C8: when every multi-entry plate of reduced_cost is one of the parent's,
\* new_parent's plate list is a permutation of the parent's that starts with
\* reduced_cost's multi-entry plates in their order, and the tensor's plate
\* axes went through the same swaps (its event axes stay behind them).
C8_AlignedToReducedCost ==
    last.op = "backward" =>
       \A i \in DOMAIN last.aligned :
          LET a == last.aligned[i]
              of_cost == SelectSeq(a.reduced_cost, LAMBDA p : PlateN(p) > 1)
              of_parent == SelectSeq(tensors[a.parent].plates, LAMBDA p : PlateN(p) > 1)
          IN Range(of_cost) \subseteq Range(of_parent)
             => /\ Len(a.plates) = Len(tensors[a.parent].plates)
                /\ Range(a.plates) = Range(tensors[a.parent].plates)
                /\ \A k \in DOMAIN of_cost : a.plates[k] = of_cost[k]
                /\ Len(a.tensor) = Len(of_parent) + Len(tensors[a.parent].event_shape)
                /\ \A k \in DOMAIN a.tensor :
                      a.tensor[k] = IF k <= Len(of_parent) THEN a.plates[k] ELSE 0

\* An alignment that moved the parent's first plate, with a plate of the
\* parent's own behind the shared ones and an event axis behind the plates.
C8_Witness ==
    /\ last.op = "backward"
    /\ \E i \in DOMAIN last.aligned :
          LET a == last.aligned[i]
          IN /\ Len(SelectSeq(a.reduced_cost, LAMBDA p : PlateN(p) > 1)) = 2
             /\ a.plates[1] # tensors[a.parent].plates[1]
             /\ Range(a.plates) # Range(a.reduced_cost)
             /\ tensors[a.parent].event_shape # <<>>

\* C9: backward leaves the parents and children lists of every tensor that
\* existed before the call as they were.
C9_BackwardLeavesGraph ==
    [][last'.op = "backward" =>
         \A n \in NodeIds :
            /\ tensors'[n].parents = tensors[n].parents
            /\ tensors'[n].children = tensors[n].children]_vars

\* C10: topological_sort(costs) returns every transitive ancestor of the
\* costs it is given (here: the registered costs, sorted by backward(debug)).
C10_SortReachesEveryAncestor ==
    (last.op = "backward" /\ last.debug /\ last.sorted = "ok")
    => \A c \in Range(last.costs) :
          Ancestors(tensors, c) \cup {c} \subseteq Range(last.order)
====
